---- MODULE Spec2Model ----
(***************************************************************************)
(* Model of parcellate/run_naba_inference.py: the checkpointed pipeline   *)
(* orchestrator main(), its helpers (_run, _run_with_xvfb, _ensure_dir,   *)
(* _find_atlas_dirs, _pick_cluster_location_file) and the tiered cleanup. *)
(*                                                                         *)
(* A path is a sequence of name components; an argv is a sequence of      *)
(* tokens, each token a sequence of strings (a path, or a one-component   *)
(* word, or a space-joined command string as its sequence of words).      *)
(* The output tree is the pair (files, dirs); everything outside it (the  *)
(* input, the host application, the atlas, the transform file) is a fixed *)
(* environment drawn at Init.                                              *)
(***************************************************************************)
EXTENDS Integers, Sequences, FiniteSets, TLC

\* ---------------------------------------------------------------- bounds
MaxRuns == 2      \* main() is started at most this many times on one tree
MaxFaults == 1    \* misbehaving tool invocations / failing deletions

\* ------------------------------------------------------- path primitives
W(s) == <<s>>

Join(p, name) == Append(p, name)

Prefixes(p) == {SubSeq(p, 1, k) : k \in 1..Len(p)}

IsUnder(p, d) == Len(p) > Len(d) /\ SubSeq(p, 1, Len(d)) = d

Name(p) == p[Len(p)]

Parent(p) == SubSeq(p, 1, Len(p) - 1)

\* Path.mkdir(parents=True, exist_ok=True)
ensure_dir(D, p) == D \cup Prefixes(p)

\* directories a tool creates when it writes the files F
DirsOf(F) == UNION {Prefixes(Parent(f)) : f \in F}

\* Path.iterdir(): the direct children
iterdir(F, D, d) == {p \in F \cup D : Len(p) = Len(d) + 1 /\ IsUnder(p, d)}

\* shutil.rmtree(d): what remains of a set of paths
rmtree(S, d) == {p \in S : p # d /\ ~IsUnder(p, d)}

\* ----------------------------------------------------- names (f-strings)
InputName == "sub.vtk"

\* Path.stem
Stem(n) ==
  CASE n = "sub.vtk" -> "sub"
    [] n = "sub_reg.vtk" -> "sub_reg"
    [] n = "sub_reg_reg.vtk" -> "sub_reg_reg"

\* f"{s}_reg"
RegName(s) ==
  CASE s = "sub" -> "sub_reg"
    [] s = "sub_reg" -> "sub_reg_reg"

\* f"{s}_reg.vtk"
RegVtkName(s) ==
  CASE s = "sub" -> "sub_reg.vtk"
    [] s = "sub_reg" -> "sub_reg_reg.vtk"

\* f"itk_txform_{s}.tfm"
TfmName(s) ==
  CASE s = "sub" -> "itk_txform_sub.tfm"
    [] s = "sub_reg" -> "itk_txform_sub_reg.tfm"

\* f"{s}_outlier_removed"
OutlierName(s) ==
  CASE s = "sub_reg" -> "sub_reg_outlier_removed"
    [] s = "sub_reg_reg" -> "sub_reg_reg_outlier_removed"

\* f"diffusion_measurements_{name}.csv"
MeasureCsvName(n) ==
  CASE n = "commissural" -> "diffusion_measurements_commissural.csv"
    [] n = "left" -> "diffusion_measurements_left.csv"
    [] n = "right" -> "diffusion_measurements_right.csv"

TerminalCluster == "cluster_00800.vtp"

VtkNames == {"sub.vtk", "sub_reg.vtk", "sub_reg_reg.vtk", "registration_atlas.vtk"}

IterationNames == {"iteration_00001"}

\* defective variant: the listing is walked in descending order
NameOrderReversed ==
  << "tracts_right_hemisphere",
     "tracts_left_hemisphere",
     "tracts_commissural",
     "diffusion_measurements_right.csv",
     "diffusion_measurements_left.csv",
     "diffusion_measurements_commissural.csv" >>

\* sorted(): the names that can occur in the separated directory, in
\* lexicographic order
NameOrder ==
  << "diffusion_measurements_commissural.csv",
     "diffusion_measurements_left.csv",
     "diffusion_measurements_right.csv",
     "tracts_commissural",
     "tracts_left_hemisphere",
     "tracts_right_hemisphere" >>

RECURSIVE SortedFrom(_, _, _)
SortedFrom(S, d, i) ==
  IF i > Len(NameOrder) THEN <<>>
  ELSE (IF Join(d, NameOrder[i]) \in S THEN <<Join(d, NameOrder[i])>> ELSE <<>>)
       \o SortedFrom(S, d, i + 1)

\* sorted(d.iterdir())
sorted_iterdir(F, D, d) == SortedFrom(iterdir(F, D, d), d, 1)

\* ------------------------------------------------------------ the layout
input_file == <<"data", InputName>>
slicer_path == <<"Slicer">>
transform_file == <<"size.tfm">>
module_path == <<"FiberTractMeasurements">>
atlas_root == <<"atlas">>
script_dir == <<"scripts">>
sys_executable == <<"python">>

subject_id == Stem(Name(input_file))
output_root == <<"out">>
output_case == Join(output_root, subject_id)
transformed_tracts_dir == Join(output_case, "TransformedTracts")
registration_dir == Join(output_case, "TractRegistration")
clustering_root == Join(output_case, "FiberClustering")
initial_clusters_dir == Join(clustering_root, "InitialClusters")
outlier_clusters_dir == Join(clustering_root, "OutlierRemovedClusters")
transformed_root == Join(clustering_root, "TransformedClusters")
transformed_clusters_dir == Join(transformed_root, subject_id)
separated_clusters_dir == Join(clustering_root, "SeparatedClusters")
inverse_transformed_dir == Join(output_case, "InvTransformedTracts")
anatomical_tracts_dir == Join(output_case, "AnatomicalTracts")

transformed == Join(transformed_tracts_dir, Name(input_file))
reg_subject_dir == Join(registration_dir, subject_id)
affine_output == reg_subject_dir \o <<"output_tractography", RegVtkName(subject_id)>>
nonrig_subject == Join(registration_dir, RegName(subject_id))
nonrig_output ==
  nonrig_subject \o <<"output_tractography", RegVtkName(RegName(subject_id))>>

IsRigid(r) == r = "rig"

\* the final value of reg_output
reg_output(r) == IF IsRigid(r) THEN affine_output ELSE nonrig_output

fc_case_id(r) == Stem(Name(reg_output(r)))
cluster_output(r) == initial_clusters_dir \o <<fc_case_id(r), TerminalCluster>>
outlier_dir(r) == Join(outlier_clusters_dir, OutlierName(fc_case_id(r)))
outlier_output(r) == Join(outlier_dir(r), TerminalCluster)
assess_log(r) == Join(outlier_dir(r), "cluster_location_by_hemisphere.log")
tfm_affine == reg_subject_dir \o <<"output_tractography", TfmName(subject_id)>>

\* defective variant: the staging step is given the affine transform
tfm_affine_again ==
  reg_subject_dir \o <<"output_tractography", TfmName(subject_id)>>

tfm_nonrig ==
  nonrig_subject \o <<"output_tractography", TfmName(RegName(subject_id))>>
temp_dir == Join(transformed_clusters_dir, "tmp")
temp_check == Join(temp_dir, TerminalCluster)
transformed_check == Join(transformed_clusters_dir, TerminalCluster)
separate_check == separated_clusters_dir \o <<"tracts_commissural", TerminalCluster>>
append_check == Join(anatomical_tracts_dir, "T_UF_right.vtp")
tracts_csv ==
  Join(anatomical_tracts_dir, "diffusion_measurements_anatomical_tracts.csv")

HasTransform(t) == t # "none"

final_clusters_dir(t) ==
  IF HasTransform(t) THEN inverse_transformed_dir ELSE separated_clusters_dir

MeasureNames == <<"commissural", "left", "right">>

\* the clusters dict of the measurement export
ClusterFolder(n) ==
  CASE n = "commissural" -> "tracts_commissural"
    [] n = "left" -> "tracts_left_hemisphere"
    [] n = "right" -> "tracts_right_hemisphere"

out_csv(n) == Join(separated_clusters_dir, MeasureCsvName(n))

\* ------------------------------------------------------------- the atlas
reg_candidates == <<"ORG-RegAtlas-100HCP", "NABA-RegAtlas", "ORG-RegAtlas">>
fc_candidates == <<"ORG-800FC-100HCP", "NABA-800FC", "ORG-800FC">>

\* defective variant: the loop has no break, the last match wins
LastDir(A, cands, i) ==
  LET P == {k \in i..Len(cands) : Join(atlas_root, cands[k]) \in A.dirs}
  IN IF P = {} THEN "" ELSE cands[CHOOSE k \in P : \A j \in P : j <= k]

\* first name of the list that is a directory under the root, or "" (None)
RECURSIVE FirstDir(_, _, _)
FirstDir(A, cands, i) ==
  IF i > Len(cands) THEN ""
  ELSE IF Join(atlas_root, cands[i]) \in A.dirs THEN cands[i]
  ELSE FirstDir(A, cands, i + 1)

\* defective variant: the reference artifacts of the selected directories
\* are not looked for
find_atlas_dirs_unchecked(A) ==
  LET reg == FirstDir(A, reg_candidates, 1)
      fc == FirstDir(A, fc_candidates, 1)
  IN IF atlas_root \notin A.dirs THEN [ok |-> FALSE, reg |-> "", fc |-> ""]
     ELSE [ok |-> reg # "" /\ fc # "", reg |-> reg, fc |-> fc]

\* _find_atlas_dirs: ok = FALSE stands for the FileNotFoundError
find_atlas_dirs(A) ==
  LET reg == FirstDir(A, reg_candidates, 1)
      fc == FirstDir(A, fc_candidates, 1)
      regPath == Join(atlas_root, reg)
      fcPath == Join(atlas_root, fc)
  IN IF atlas_root \notin A.dirs THEN [ok |-> FALSE, reg |-> "", fc |-> ""]
     ELSE IF reg = "" \/ fc = "" THEN [ok |-> FALSE, reg |-> reg, fc |-> fc]
     ELSE IF Join(regPath, "registration_atlas.vtk") \notin A.files
       THEN [ok |-> FALSE, reg |-> reg, fc |-> fc]
     ELSE IF Join(fcPath, "atlas.p") \notin A.files
             \/ Join(fcPath, "atlas.vtp") \notin A.files
       THEN [ok |-> FALSE, reg |-> reg, fc |-> fc]
     ELSE [ok |-> TRUE, reg |-> reg, fc |-> fc]

fallback_location == script_dir \o <<"resources", "cluster_hemisphere_location.txt">>

\* _pick_cluster_location_file: <<>> stands for the FileNotFoundError
pick_cluster_location_file(A, fc, hasFallback) ==
  LET from_atlas == atlas_root \o <<fc, "cluster_hemisphere_location.txt">>
  IN IF from_atlas \in A.files THEN from_atlas
     ELSE IF hasFallback THEN fallback_location
     ELSE <<>>

\* an atlas bundle directory with its reference artifacts
Bundle(name, fileNames) ==
  [dirs |-> {Join(atlas_root, name)},
   files |-> {atlas_root \o <<name, f>> : f \in fileNames}]

Merge(S) ==
  [dirs |-> {atlas_root} \cup UNION {b.dirs : b \in S},
   files |-> UNION {b.files : b \in S}]

RegFiles == {"registration_atlas.vtk"}
FcFiles == {"atlas.p", "atlas.vtp"}
FcFilesLoc == {"atlas.p", "atlas.vtp", "cluster_hemisphere_location.txt"}

NoAtlas == [dirs |-> {}, files |-> {}]

OrgAtlas ==
  Merge({Bundle("ORG-RegAtlas-100HCP", RegFiles),
         Bundle("ORG-800FC-100HCP", FcFilesLoc)})

NabaAtlas ==
  Merge({Bundle("NABA-RegAtlas", RegFiles), Bundle("NABA-800FC", FcFiles)})

\* the sites the pipeline runs are started on: an atlas root and whether the
\* orchestrator's own resources/ copy of the location file is installed
Sites ==
  { [atlas |-> NoAtlas, hasFallback |-> TRUE],
    [atlas |-> OrgAtlas, hasFallback |-> FALSE],
    [atlas |-> NabaAtlas, hasFallback |-> TRUE],
    [atlas |-> NabaAtlas, hasFallback |-> FALSE],
    [atlas |-> Merge({Bundle("NABA-RegAtlas", RegFiles)}), hasFallback |-> TRUE],
    [atlas |-> Merge({Bundle("ORG-RegAtlas-100HCP", {}),
                      Bundle("NABA-RegAtlas", RegFiles),
                      Bundle("NABA-800FC", FcFilesLoc)}),
     hasFallback |-> TRUE],
    [atlas |-> Merge({Bundle("NABA-RegAtlas", RegFiles),
                      Bundle("NABA-800FC", {"atlas.p"}),
                      Bundle("ORG-800FC", FcFilesLoc)}),
     hasFallback |-> TRUE] }

\* --------------------------------------------------------- configuration
\* r: -r, t: -t ("none" not given, "ok" an existing file, "missing" a path
\* that is no file), d: -d, m: -m given, c: -c, x: -x
Configs ==
  [r : {"rig", "nonrig"}, t : {"none", "ok", "missing"}, d : {0, 1},
   m : BOOLEAN, c : {0, 1, 2}, x : {0, 1}]

Environments ==
  {[inputExists |-> i, slicerExists |-> h, atlas |-> s.atlas,
    hasFallback |-> s.hasFallback] : i \in BOOLEAN, h \in BOOLEAN, s \in Sites}

VARIABLES
  cfg,        \* args, fixed for all runs on the tree
  env,        \* what exists outside the output tree
  files,      \* regular files of the output tree
  dirs,       \* directories of the output tree
  pc,         \* position of main()
  todo,       \* the rest of the list a for loop iterates over
  invoked,    \* the commands _run has started in this run, in order
  exitCode,   \* exit status of the process once pc = "done"
  runNo,      \* which start of main() on this tree this is
  faults,     \* misbehaving invocations and failed deletions so far
  deleted,    \* paths this run's cleanup has removed
  cleanupErr, \* a deletion of this run raised
  prev,       \* the tree and outcome the previous run ended with
  prepop      \* number of leading stages whose outputs were put there first

vars ==
  <<cfg, env, files, dirs, pc, todo, invoked, exitCode, runNo, faults,
    deleted, cleanupErr, prev, prepop>>

\* ------------------------------------------------------------- commands
\* defective variant: the launcher prefix is dropped
run_without_xvfb(cmd, use_xvfb) == cmd

\* _run_with_xvfb: cmd = ["xvfb-run", "-a"] + cmd
run_with_xvfb(cmd, use_xvfb) ==
  IF use_xvfb THEN <<W("xvfb-run"), W("-a")>> \o cmd ELSE cmd

UseXvfb(x) == x = 1

ThreadArg == W("1")

reg_dir == Join(atlas_root, find_atlas_dirs(env.atlas).reg)
fc_dir == Join(atlas_root, find_atlas_dirs(env.atlas).fc)
cluster_location_file ==
  pick_cluster_location_file(env.atlas, find_atlas_dirs(env.atlas).fc,
                             env.hasFallback)

active_input(t) == IF HasTransform(t) THEN transformed ELSE input_file

HardenInputCmd ==
  << W("wm_harden_transform.py"), W("-t"), transform_file,
     Parent(input_file), transformed_tracts_dir, slicer_path >>

RegisterCmd(mode, input) ==
  << W("wm_register_to_atlas_new.py"), W("-mode"), W(mode), input,
     Join(reg_dir, "registration_atlas.vtk"), registration_dir >>

ClusterCmd(r) ==
  << W("wm_cluster_from_atlas.py"), W("-j"), ThreadArg, reg_output(r), fc_dir,
     initial_clusters_dir, W("-norender") >>

OutlierCmd(r) ==
  << W("wm_cluster_remove_outliers.py"), W("-j"), ThreadArg,
     Join(initial_clusters_dir, fc_case_id(r)), fc_dir, outlier_clusters_dir >>

AssessCmd(r) ==
  << W("wm_assess_cluster_location_by_hemisphere.py"),
     W("-clusterLocationFile"), cluster_location_file, outlier_dir(r) >>

HardenInverseCmd(tfm, indir, outdir) ==
  << W("wm_harden_transform.py"), W("-i"), W("-t"), tfm, indir, outdir,
     slicer_path >>

SeparateCmd ==
  << W("wm_separate_clusters_by_hemisphere.py"), transformed_clusters_dir,
     separated_clusters_dir >>

AppendCmd(t) ==
  << sys_executable,
     Join(script_dir, "wm_append_clusters_to_anatomical_tracts_naba.py"),
     final_clusters_dir(t), fc_dir, anatomical_tracts_dir >>

\* f"{slicer_path} --launch {module}", prefixed by "xvfb-run -a " if -x 1
slicer_cmd(x) ==
  (IF UseXvfb(x) THEN <<"xvfb-run", "-a">> ELSE <<>>)
    \o slicer_path \o <<"--launch">> \o module_path

MeasureCmd(input_dir, csv, x) ==
  << W("wm_diffusion_measurements.py"), input_dir, csv, slicer_cmd(x) >>

\* ------------------------------------------------- the external programs
\* argv without the launcher prefix
Strip(argv) ==
  IF argv[1] = W("xvfb-run") THEN SubSeq(argv, 3, Len(argv)) ELSE argv

\* the artifacts a tool declares to write, from its argument vector
ToolFiles(argv) ==
  LET a == Strip(argv)
      t == a[1][1]
  IN CASE t = "wm_harden_transform.py" ->
            LET indir == a[Len(a) - 2]
                outdir == a[Len(a) - 1]
            IN {Join(outdir, IF indir = Parent(input_file)
                               THEN InputName ELSE TerminalCluster)}
       [] t = "wm_register_to_atlas_new.py" ->
            LET s == Stem(Name(a[4]))
                d == Join(a[6], s)
            IN { d \o <<"output_tractography", RegVtkName(s)>>,
                 d \o <<"output_tractography", TfmName(s)>>,
                 d \o <<"iteration_00001", "registration_performance.txt">> }
       [] t = "wm_cluster_from_atlas.py" ->
            {a[6] \o <<Stem(Name(a[4])), TerminalCluster>>}
       [] t = "wm_cluster_remove_outliers.py" ->
            {a[6] \o <<OutlierName(Name(a[4])), TerminalCluster>>}
       [] t = "wm_assess_cluster_location_by_hemisphere.py" ->
            {Join(a[4], "cluster_location_by_hemisphere.log")}
       [] t = "wm_separate_clusters_by_hemisphere.py" ->
            {a[3] \o <<ClusterFolder(n), TerminalCluster>> :
               n \in {"commissural", "left", "right"}}
       [] t = "wm_diffusion_measurements.py" -> {a[3]}
       [] t = "python" -> {Join(a[5], "T_UF_right.vtp")}

\* how one invocation of an external program can end
Outcomes == {"ok", "noout", "fail", "failout"}

ExitStatus(o) == IF o \in {"ok", "noout"} THEN 0 ELSE 1

Writes(o) == o \in {"ok", "failout"}

Allowed(o) == o \in Outcomes /\ (o # "ok" => faults < MaxFaults)

\* defective variant: the exit status of the child is ignored (check=False)
RunNeverRaises(check, rc) == FALSE

\* subprocess.run(cmd, check=check) raises CalledProcessError
RunRaises(check, rc) == check /\ rc # 0

\* ------------------------------------------------------ control transfer
Return(code) == pc' = "done" /\ exitCode' = code

Goto(p) == IF p = "fail" THEN Return(1) ELSE pc' = p /\ UNCHANGED exitCode

\* _run(cmd) with outcome o on the tree (files, D), then the branch on the
\* presence of the checked artifact: ifPresent / ifAbsent name the next
\* position, "fail" standing for "print the error and return 1"
Invoke(argv, expect, D, o, ifPresent, ifAbsent) ==
  LET F2 == IF Writes(o) THEN files \cup ToolFiles(argv) ELSE files
      D2 == IF Writes(o) THEN D \cup DirsOf(ToolFiles(argv)) ELSE D
      rc == ExitStatus(o)
  IN /\ Allowed(o)
     /\ files' = F2
     /\ dirs' = D2
     /\ invoked' = Append(invoked, [argv |-> argv, rc |-> rc, expect |-> expect,
                                    present |-> expect \in F2])
     /\ faults' = IF o = "ok" THEN faults ELSE faults + 1
     /\ IF RunRaises(TRUE, rc) THEN Return(1)
        ELSE IF expect \in F2 THEN Goto(ifPresent) ELSE Goto(ifAbsent)

\* the stage is complete: nothing is invoked
Skip(D, next) ==
  /\ dirs' = D
  /\ Goto(next)
  /\ UNCHANGED <<files, invoked, faults>>

\* defective variant: the artifact is not looked for after the command
StageUnchecked(argv, expect, D, ifPresent, ifAbsent) ==
  IF expect \in files THEN Skip(D, ifPresent)
  ELSE \E o \in Outcomes : Invoke(argv, expect, D, o, ifPresent, ifPresent)

\* if not expect.is_file(): _run(cmd)
Stage(argv, expect, D, ifPresent, ifAbsent) ==
  IF expect \in files THEN Skip(D, ifPresent)
  ELSE \E o \in Outcomes : Invoke(argv, expect, D, o, ifPresent, ifAbsent)

Abort(D) ==
  /\ dirs' = D
  /\ Return(1)
  /\ UNCHANGED <<files, invoked, faults>>

Frame == UNCHANGED <<cfg, env, runNo, deleted, cleanupErr, prev, prepop>>


\* ------------------------------------------------------------------ Init
NoPrev == [files |-> {}, dirs |-> {}, exitCode |-> 0, invoked |-> <<>>]

Init ==
  /\ cfg \in Configs
  /\ env \in Environments
  /\ files = {}
  /\ dirs = {}
  /\ pc = "validate"
  /\ todo = <<>>
  /\ invoked = <<>>
  /\ exitCode = 0
  /\ runNo = 1
  /\ faults = 0
  /\ deleted = {}
  /\ cleanupErr = FALSE
  /\ prev = NoPrev
  /\ prepop = 0

\* --------------------------------------------------------- main(): checks
InputMissing == ~env.inputExists

SlicerMissing == ~env.slicerExists

MeasurementMisconfigured(d, m) == d = 1 /\ ~m

AtlasInvalid ==
  \/ ~find_atlas_dirs(env.atlas).ok
  \/ cluster_location_file = <<>>

\* defective variant: the -t file is not checked
TransformNeverMissing(t) == FALSE

TransformMissing(t) == t = "missing"

\* argument checks, atlas resolution, creation of the case directory and
\* the check of the -t file
Validate ==
  /\ pc = "validate"
  /\ IF InputMissing \/ SlicerMissing \/ MeasurementMisconfigured(cfg.d, cfg.m)
        \/ AtlasInvalid
       THEN Abort(dirs)
     ELSE LET D == ensure_dir(ensure_dir(dirs, output_root), output_case)
          IN IF HasTransform(cfg.t)
               THEN IF TransformMissing(cfg.t) THEN Abort(D)
                    ELSE Skip(D, "harden")
               ELSE Skip(D, "register")
  /\ UNCHANGED todo
  /\ Frame

\* --------------------------------------------------------- main(): stages
\* harden the size-matching transform into the raw input
HardenInput ==
  /\ pc = "harden"
  /\ \E o \in Outcomes :
       Invoke(run_with_xvfb(HardenInputCmd, UseXvfb(cfg.x)), transformed,
              ensure_dir(dirs, transformed_tracts_dir), o, "register", "fail")
  /\ UNCHANGED todo
  /\ Frame

RegisterRigid ==
  /\ pc = "register"
  /\ IsRigid(cfg.r)
  /\ Stage(RegisterCmd("rigid_affine_fast", active_input(cfg.t)), affine_output,
           ensure_dir(dirs, registration_dir), "cluster", "fail")
  /\ UNCHANGED todo
  /\ Frame

RegisterAffine ==
  /\ pc = "register"
  /\ ~IsRigid(cfg.r)
  /\ Stage(RegisterCmd("affine", active_input(cfg.t)), affine_output,
           ensure_dir(dirs, registration_dir), "register2", "register2")
  /\ UNCHANGED todo
  /\ Frame

RegisterNonrigid ==
  /\ pc = "register2"
  /\ Stage(RegisterCmd("nonrigid", affine_output), nonrig_output, dirs,
           "cluster", "fail")
  /\ UNCHANGED todo
  /\ Frame

Cluster ==
  /\ pc = "cluster"
  /\ Stage(ClusterCmd(cfg.r), cluster_output(cfg.r),
           ensure_dir(dirs, initial_clusters_dir), "outliers", "outliers")
  /\ UNCHANGED todo
  /\ Frame

RemoveOutliers ==
  /\ pc = "outliers"
  /\ Stage(OutlierCmd(cfg.r), outlier_output(cfg.r),
           ensure_dir(dirs, outlier_clusters_dir), "assess", "assess")
  /\ UNCHANGED todo
  /\ Frame

AssessHemisphere ==
  /\ pc = "assess"
  /\ Stage(AssessCmd(cfg.r), assess_log(cfg.r), dirs, "untransform",
           "untransform")
  /\ UNCHANGED todo
  /\ Frame

UntransformRigid ==
  /\ pc = "untransform"
  /\ IsRigid(cfg.r)
  /\ LET D == ensure_dir(dirs, transformed_clusters_dir)
     IN IF tfm_affine \notin files THEN Abort(D)
        ELSE Stage(run_with_xvfb(HardenInverseCmd(tfm_affine, outlier_dir(cfg.r),
                                                  transformed_clusters_dir),
                                 UseXvfb(cfg.x)),
                   transformed_check, D, "separate", "fail")
  /\ UNCHANGED todo
  /\ Frame

UntransformNonrigid ==
  /\ pc = "untransform"
  /\ ~IsRigid(cfg.r)
  /\ LET D == ensure_dir(dirs, transformed_clusters_dir)
     IN IF tfm_nonrig \notin files \/ tfm_affine \notin files THEN Abort(D)
        ELSE Stage(run_with_xvfb(HardenInverseCmd(tfm_nonrig, outlier_dir(cfg.r),
                                                  temp_dir),
                                 UseXvfb(cfg.x)),
                   temp_check, ensure_dir(D, temp_dir), "untransform2",
                   "untransform2")
  /\ UNCHANGED todo
  /\ Frame

UntransformAffine ==
  /\ pc = "untransform2"
  /\ Stage(run_with_xvfb(HardenInverseCmd(tfm_affine, temp_dir,
                                          transformed_clusters_dir),
                         UseXvfb(cfg.x)),
           transformed_check, dirs, "separate", "fail")
  /\ UNCHANGED todo
  /\ Frame

\* defective variant: the per-folder inverse transform is left out
AfterSeparateNoInverse(t) == "append"

AfterSeparate(t) == IF HasTransform(t) THEN "inverse" ELSE "append"

Separate ==
  /\ pc = "separate"
  /\ Stage(SeparateCmd, separate_check, ensure_dir(dirs, separated_clusters_dir),
           AfterSeparate(cfg.t), AfterSeparate(cfg.t))
  /\ UNCHANGED todo
  /\ Frame

\* if args.t: re-check the transform file, create the directory and list
\* the separated directory
InverseStart ==
  /\ pc = "inverse"
  /\ IF TransformMissing(cfg.t) THEN Abort(dirs) /\ UNCHANGED todo
     ELSE LET D == ensure_dir(dirs, inverse_transformed_dir)
              L == sorted_iterdir(files, D, separated_clusters_dir)
          IN /\ todo' = L
             /\ Skip(D, IF L = <<>> THEN "append" ELSE "inverse_loop")
  /\ Frame

\* one iteration of the loop over the entries of the separated directory
InverseFolder ==
  /\ pc = "inverse_loop"
  /\ todo # <<>>
  /\ LET cluster_dir == Head(todo)
         out_dir == Join(inverse_transformed_dir, Name(cluster_dir))
         out_check == Join(out_dir, TerminalCluster)
         next == IF Tail(todo) = <<>> THEN "append" ELSE "inverse_loop"
     IN IF cluster_dir \notin dirs THEN Skip(dirs, next)
        ELSE Stage(run_with_xvfb(HardenInverseCmd(transform_file, cluster_dir,
                                                  out_dir),
                                 UseXvfb(cfg.x)),
                   out_check, ensure_dir(dirs, out_dir), next, next)
  /\ todo' = Tail(todo)
  /\ Frame

WantsMeasurements(d) == d = 1

\* anatomical aggregation; with -d 1 the launch string is built next, which
\* raises TypeError when -m was not given
AppendTracts ==
  /\ pc = "append"
  /\ LET next == IF ~WantsMeasurements(cfg.d) THEN "cleanup1"
                 ELSE IF ~cfg.m THEN "fail" ELSE "measure"
     IN Stage(AppendCmd(cfg.t), append_check,
              ensure_dir(dirs, anatomical_tracts_dir), next, next)
  /\ todo' = IF WantsMeasurements(cfg.d)
               THEN [i \in 1..Len(MeasureNames) |-> W(MeasureNames[i])]
               ELSE <<>>
  /\ Frame

\* one iteration of the loop over the clusters dict
Measure ==
  /\ pc = "measure"
  /\ todo # <<>>
  /\ LET name == Head(todo)[1]
         next == IF Tail(todo) = <<>> THEN "measure_tracts" ELSE "measure"
     IN Stage(MeasureCmd(Join(final_clusters_dir(cfg.t), ClusterFolder(name)),
                         out_csv(name), cfg.x),
              out_csv(name), dirs, next, next)
  /\ todo' = Tail(todo)
  /\ Frame

MeasureTracts ==
  /\ pc = "measure_tracts"
  /\ Stage(MeasureCmd(anatomical_tracts_dir, tracts_csv, cfg.x), tracts_csv,
           dirs, "cleanup1", "cleanup1")
  /\ UNCHANGED todo
  /\ Frame


\* -------------------------------------------------------------- cleanup
\* one deletion: kind "rmtree" (shutil.rmtree) or "unlink" (Path.unlink)
Op(kind, path) == [kind |-> kind, path |-> path]

Hit(o, p) == p = o.path \/ (o.kind = "rmtree" /\ IsUnder(p, o.path))

\* the paths of S left once the deletions ops have succeeded
Remove(S, ops) == {p \in S : \A o \in ops : ~Hit(o, p)}

Exists(T, p) == p \in T.files \cup T.dirs

\* registration_dir.glob("*/*/output_tractography/*.vtk")
GlobVtk(T) ==
  {p \in T.files \cup T.dirs :
     /\ IsUnder(p, registration_dir)
     /\ Len(p) = Len(registration_dir) + 4
     /\ p[Len(p) - 1] = "output_tractography"
     /\ Name(p) \in VtkNames}

\* registration_dir.glob("*/*/iteration*")
GlobIteration(T) ==
  {p \in T.files \cup T.dirs :
     /\ IsUnder(p, registration_dir)
     /\ Len(p) = Len(registration_dir) + 3
     /\ Name(p) \in IterationNames}

\* the deletions of "if args.c >= 1", in program order
MinimalGroups(T) ==
  << IF Exists(T, initial_clusters_dir)
       THEN {Op("rmtree", initial_clusters_dir)} ELSE {},
     IF Exists(T, transformed_root)
       THEN {Op("rmtree", transformed_root)} ELSE {} >>

\* the deletions of "if args.c >= 2", loop by loop in program order; the
\* order inside one glob or listing is not fixed
MaximalGroups(T) ==
  << IF Exists(T, registration_dir)
       THEN {Op("unlink", p) : p \in GlobVtk(T)} ELSE {},
     IF Exists(T, registration_dir)
       THEN {Op("rmtree", p) : p \in GlobIteration(T)} ELSE {},
     IF Exists(T, initial_clusters_dir)
       THEN {Op("rmtree", initial_clusters_dir)} ELSE {},
     IF Exists(T, outlier_clusters_dir)
       THEN {Op(IF p \in T.dirs THEN "rmtree" ELSE "unlink", p) :
               p \in iterdir(T.files, T.dirs, outlier_clusters_dir)}
       ELSE {},
     IF Exists(T, transformed_root)
       THEN {Op("unlink", p) : p \in {f \in T.files : IsUnder(f, transformed_root)}}
       ELSE {} >>

AllOps(groups) == UNION {groups[i] : i \in 1..Len(groups)}

Apply(T, ops) == [files |-> Remove(T.files, ops), dirs |-> Remove(T.dirs, ops)]

\* defective variant: the minimal block runs for tier 1 alone
RunsMinimalOnly(c) == c = 1

RunsMinimal(c) == c >= 1

RunsMaximal(c) == c >= 2

\* the tree after each block when every deletion succeeds
AfterMinimal(c, T) ==
  IF RunsMinimal(c) THEN Apply(T, AllOps(MinimalGroups(T))) ELSE T

AfterMaximal(c, T) ==
  IF RunsMaximal(c) THEN Apply(T, AllOps(MaximalGroups(T))) ELSE T

AfterCleanup(c, T) == AfterMaximal(c, AfterMinimal(c, T))

Tree == [files |-> files, dirs |-> dirs]

\* deletion f of loop g raises after the earlier loops and some deletions X
\* of its own loop are done: the exception leaves main()
DeletionRaises(groups) ==
  /\ faults < MaxFaults
  /\ \E g \in 1..Len(groups) : \E f \in groups[g] :
       \E X \in SUBSET (groups[g] \ {f}) :
         LET done == UNION {groups[i] : i \in 1..(g - 1)} \cup X
         IN /\ files' = Remove(files, done)
            /\ dirs' = Remove(dirs, done)
            /\ deleted' = deleted \cup ((files \cup dirs) \ (files' \cup dirs'))
  /\ cleanupErr' = TRUE
  /\ faults' = faults + 1
  /\ Return(1)

\* if args.c >= 1: ...
CleanupMinimal ==
  /\ pc = "cleanup1"
  /\ \/ /\ files' = AfterMinimal(cfg.c, Tree).files
        /\ dirs' = AfterMinimal(cfg.c, Tree).dirs
        /\ deleted' = deleted \cup ((files \cup dirs) \ (files' \cup dirs'))
        /\ Goto("cleanup2")
        /\ UNCHANGED <<cleanupErr, faults>>
     \/ /\ RunsMinimal(cfg.c)
        /\ DeletionRaises(MinimalGroups(Tree))
  /\ UNCHANGED <<cfg, env, todo, invoked, runNo, prev, prepop>>

\* if args.c >= 2: ...; return 0
CleanupMaximal ==
  /\ pc = "cleanup2"
  /\ \/ /\ files' = AfterMaximal(cfg.c, Tree).files
        /\ dirs' = AfterMaximal(cfg.c, Tree).dirs
        /\ deleted' = deleted \cup ((files \cup dirs) \ (files' \cup dirs'))
        /\ Return(0)
        /\ UNCHANGED <<cleanupErr, faults>>
     \/ /\ RunsMaximal(cfg.c)
        /\ DeletionRaises(MaximalGroups(Tree))
  /\ UNCHANGED <<cfg, env, todo, invoked, runNo, prev, prepop>>

\* ------------------------------------------------------------- restarts
\* the same command line is started again on the tree a successful run left
Rerun ==
  /\ pc = "done"
  /\ exitCode = 0
  /\ runNo < MaxRuns
  /\ pc' = "validate"
  /\ runNo' = runNo + 1
  /\ prev' = [files |-> files, dirs |-> dirs, exitCode |-> exitCode,
              invoked |-> invoked]
  /\ invoked' = <<>>
  /\ todo' = <<>>
  /\ exitCode' = 0
  /\ deleted' = {}
  /\ cleanupErr' = FALSE
  /\ UNCHANGED <<cfg, env, files, dirs, faults, prepop>>

Next ==
  \/ Validate
  \/ HardenInput
  \/ RegisterRigid
  \/ RegisterAffine
  \/ RegisterNonrigid
  \/ Cluster
  \/ RemoveOutliers
  \/ AssessHemisphere
  \/ UntransformRigid
  \/ UntransformNonrigid
  \/ UntransformAffine
  \/ Separate
  \/ InverseStart
  \/ InverseFolder
  \/ AppendTracts
  \/ Measure
  \/ MeasureTracts
  \/ CleanupMinimal
  \/ CleanupMaximal
  \/ Rerun

Spec == Init /\ [][Next]_vars

\* ------------------------------------------------- the stage sequence
\* the stages a configuration selects, in the documented order
StageOrder(c) ==
  (IF c.t # "none" THEN <<"harden">> ELSE <<>>)
  \o (IF c.r = "rig" THEN <<"reg_rigid">> ELSE <<"reg_affine", "reg_nonrigid">>)
  \o <<"cluster", "outliers", "assess">>
  \o (IF c.r = "rig" THEN <<"untf_rigid">> ELSE <<"untf_nonrigid", "untf_affine">>)
  \o <<"separate">>
  \o (IF c.t # "none" THEN <<"inv_commissural", "inv_left", "inv_right">> ELSE <<>>)
  \o <<"append">>
  \o (IF c.d = 1
        THEN <<"meas_commissural", "meas_left", "meas_right", "meas_tracts">>
        ELSE <<>>)

\* the command main() builds for a stage
StageArgv(l, c) ==
  CASE l = "harden" -> run_with_xvfb(HardenInputCmd, UseXvfb(c.x))
    [] l = "reg_rigid" -> RegisterCmd("rigid_affine_fast", active_input(c.t))
    [] l = "reg_affine" -> RegisterCmd("affine", active_input(c.t))
    [] l = "reg_nonrigid" -> RegisterCmd("nonrigid", affine_output)
    [] l = "cluster" -> ClusterCmd(c.r)
    [] l = "outliers" -> OutlierCmd(c.r)
    [] l = "assess" -> AssessCmd(c.r)
    [] l = "untf_rigid" ->
         run_with_xvfb(HardenInverseCmd(tfm_affine, outlier_dir(c.r),
                                        transformed_clusters_dir), UseXvfb(c.x))
    [] l = "untf_nonrigid" ->
         run_with_xvfb(HardenInverseCmd(tfm_nonrig, outlier_dir(c.r), temp_dir),
                       UseXvfb(c.x))
    [] l = "untf_affine" ->
         run_with_xvfb(HardenInverseCmd(tfm_affine, temp_dir,
                                        transformed_clusters_dir), UseXvfb(c.x))
    [] l = "separate" -> SeparateCmd
    [] l \in {"inv_commissural", "inv_left", "inv_right"} ->
         LET n == CASE l = "inv_commissural" -> "commissural"
                    [] l = "inv_left" -> "left"
                    [] l = "inv_right" -> "right"
         IN run_with_xvfb(
              HardenInverseCmd(transform_file,
                               Join(separated_clusters_dir, ClusterFolder(n)),
                               Join(inverse_transformed_dir, ClusterFolder(n))),
              UseXvfb(c.x))
    [] l = "append" -> AppendCmd(c.t)
    [] l \in {"meas_commissural", "meas_left", "meas_right"} ->
         LET n == CASE l = "meas_commissural" -> "commissural"
                    [] l = "meas_left" -> "left"
                    [] l = "meas_right" -> "right"
         IN MeasureCmd(Join(final_clusters_dir(c.t), ClusterFolder(n)),
                       out_csv(n), c.x)
    [] l = "meas_tracts" -> MeasureCmd(anatomical_tracts_dir, tracts_csv, c.x)

\* the tree in which exactly the outputs of the first k stages exist
PrefixFiles(c, k) ==
  UNION {ToolFiles(StageArgv(StageOrder(c)[i], c)) : i \in 1..k}

\* a run resumed on a tree holding the outputs of the first prepop stages
\* (left there by runs of the same command line that got that far)
InitResume ==
  /\ cfg \in {c \in Configs : c.t # "missing" /\ c.m}
  /\ env \in {e \in Environments :
                e.inputExists /\ e.slicerExists /\ e.atlas = OrgAtlas}
  /\ prepop \in 0..Len(StageOrder(cfg))
  /\ files = PrefixFiles(cfg, prepop)
  /\ dirs = DirsOf(files)
  /\ pc = "validate"
  /\ todo = <<>>
  /\ invoked = <<>>
  /\ exitCode = 0
  /\ runNo = 1
  /\ faults = 0
  /\ deleted = {}
  /\ cleanupErr = FALSE
  /\ prev = NoPrev

SpecResume == InitResume /\ [][Next]_vars

\* ------------------------------------------------ atlas roots in general
\* what a candidate name is under the root: nothing, a regular file, or a
\* directory holding none, some or all of its reference artifacts
RegShapes == {"absent", "file", "empty", "full"}
FcShapes == {"absent", "nomodel", "nogeometry", "full"}

Entry(name, shape, all) ==
  CASE shape = "absent" -> [dirs |-> {}, files |-> {}]
    [] shape = "file" -> [dirs |-> {}, files |-> {Join(atlas_root, name)}]
    [] shape = "empty" -> Bundle(name, {})
    [] shape = "nomodel" -> Bundle(name, all \ {"atlas.p"})
    [] shape = "nogeometry" -> Bundle(name, all \ {"atlas.vtp"})
    [] shape = "full" -> Bundle(name, all)

\* the root whose i-th registration / clustering candidate has shape
\* rs[i] / fs[i]
AtlasOf(rs, fs) ==
  Merge({Entry(reg_candidates[i], rs[i], RegFiles) : i \in 1..Len(reg_candidates)}
          \cup {Entry(fc_candidates[i], fs[i], FcFilesLoc) :
                  i \in 1..Len(fc_candidates)})

AtlasRoots ==
  {NoAtlas}
    \cup {AtlasOf(rs, fs) : rs \in [1..Len(reg_candidates) -> RegShapes],
                             fs \in [1..Len(fc_candidates) -> FcShapes]}

\* the argparse defaults of the optional arguments
Defaults == [r |-> "rig", t |-> "none", d |-> 0, m |-> FALSE, c |-> 0, x |-> 0]

\* the defaults with minimal cleanup
DefaultsMinimal == [Defaults EXCEPT !.c = 1]

\* every optional stage selected
FullOptions ==
  [r |-> "nonrig", t |-> "ok", d |-> 1, m |-> TRUE, c |-> 2, x |-> 1]

\* main() started on an arbitrary atlas root, everything else in place: the
\* default command lines on every root, the full one on the standard atlas
InitAtlas ==
  /\ env \in {[inputExists |-> TRUE, slicerExists |-> TRUE, atlas |-> a,
               hasFallback |-> TRUE] : a \in AtlasRoots}
  /\ cfg \in {Defaults, DefaultsMinimal}
               \cup (IF env.atlas = OrgAtlas THEN {FullOptions} ELSE {})
  /\ files = {}
  /\ dirs = {}
  /\ pc = "validate"
  /\ todo = <<>>
  /\ invoked = <<>>
  /\ exitCode = 0
  /\ runNo = 1
  /\ faults = 0
  /\ deleted = {}
  /\ cleanupErr = FALSE
  /\ prev = NoPrev
  /\ prepop = 0

SpecAtlas == InitAtlas /\ [][Next]_vars

\* ------------------------------------------------- trees with gaps
\* what a complete run of configuration c leaves when nothing is cleaned
FullTree(c) == PrefixFiles(c, Len(StageOrder(c)))

GapConfigs ==
  {c \in Configs : c.t # "missing" /\ c.m /\ c.d = 1 /\ c.x = 0 /\ c.c \in {0, 2}}

\* a run started on the tree of a complete earlier run of the same command
\* line from which no, one or two artifacts have been removed since
InitGap ==
  /\ cfg \in GapConfigs
  /\ env \in {e \in Environments :
                e.inputExists /\ e.slicerExists /\ e.atlas = OrgAtlas}
  /\ \/ files = FullTree(cfg)
     \/ \E f \in FullTree(cfg) : \E g \in FullTree(cfg) :
          files = FullTree(cfg) \ {f, g}
  /\ dirs = DirsOf(FullTree(cfg))
  /\ prev = [files |-> files, dirs |-> dirs, exitCode |-> 0, invoked |-> <<>>]
  /\ prepop = Len(StageOrder(cfg))
  /\ pc = "validate"
  /\ todo = <<>>
  /\ invoked = <<>>
  /\ exitCode = 0
  /\ runNo = 1
  /\ faults = 0
  /\ deleted = {}
  /\ cleanupErr = FALSE

SpecGap == InitGap /\ [][Next]_vars

\* ------------------------------------------------ reading a command line
HasLauncher(argv) ==
  Len(argv) >= 2 /\ argv[1] = <<"xvfb-run">> /\ argv[2] = <<"-a">>

ToolName(argv) ==
  LET a == Strip(argv)
  IN IF a[1] = <<"python">> THEN Name(a[2]) ELSE a[1][1]

\* the stage a command line belongs to, read off its program, flags and
\* directories
LabelOf(argv) ==
  LET a == Strip(argv)
      t == ToolName(argv)
  IN CASE t = "wm_harden_transform.py" /\ a[2] = <<"-t">> -> "harden"
       [] t = "wm_harden_transform.py" /\ a[2] = <<"-i">> ->
            (CASE a[6] = <<"out", "sub", "FiberClustering", "TransformedClusters",
                          "sub", "tmp">> -> "untf_nonrigid"
               [] a[6] = <<"out", "sub", "FiberClustering", "TransformedClusters",
                          "sub">> ->
                    (IF a[5] = <<"out", "sub", "FiberClustering",
                                 "TransformedClusters", "sub", "tmp">>
                       THEN "untf_affine" ELSE "untf_rigid")
               [] a[6] = <<"out", "sub", "InvTransformedTracts",
                          "tracts_commissural">> -> "inv_commissural"
               [] a[6] = <<"out", "sub", "InvTransformedTracts",
                          "tracts_left_hemisphere">> -> "inv_left"
               [] a[6] = <<"out", "sub", "InvTransformedTracts",
                          "tracts_right_hemisphere">> -> "inv_right"
               [] OTHER -> "unknown")
       [] t = "wm_register_to_atlas_new.py" ->
            (CASE a[3] = <<"rigid_affine_fast">> -> "reg_rigid"
               [] a[3] = <<"affine">> -> "reg_affine"
               [] a[3] = <<"nonrigid">> -> "reg_nonrigid"
               [] OTHER -> "unknown")
       [] t = "wm_cluster_from_atlas.py" -> "cluster"
       [] t = "wm_cluster_remove_outliers.py" -> "outliers"
       [] t = "wm_assess_cluster_location_by_hemisphere.py" -> "assess"
       [] t = "wm_separate_clusters_by_hemisphere.py" -> "separate"
       [] t = "wm_append_clusters_to_anatomical_tracts_naba.py" -> "append"
       [] t = "wm_diffusion_measurements.py" ->
            (CASE Name(a[3]) = "diffusion_measurements_commissural.csv" ->
                    "meas_commissural"
               [] Name(a[3]) = "diffusion_measurements_left.csv" -> "meas_left"
               [] Name(a[3]) = "diffusion_measurements_right.csv" -> "meas_right"
               [] Name(a[3]) = "diffusion_measurements_anatomical_tracts.csv" ->
                    "meas_tracts"
               [] OTHER -> "unknown")
       [] OTHER -> "unknown"

Labels(inv) == [i \in 1..Len(inv) |-> LabelOf(inv[i].argv)]

\* -------------------------------------------------------------- claims
\* one of the configuration errors is present
ConfigError ==
  \/ ~env.inputExists
  \/ ~env.slicerExists
  \/ ~find_atlas_dirs(env.atlas).ok
  \/ cfg.t = "missing"
  \/ (cfg.d = 1 /\ ~cfg.m)

\* the tree is the one the previous run ended with
SameTree == files = prev.files /\ dirs = prev.dirs

\* C1: idempotency. When main() is run a second time with the same
\* configuration on the tree its first run built from an empty output root,
\* and no tool misbehaves, the second run invokes no external command and
\* ends with the artifact set the first run ended with.
C1_Idempotent ==
  (runNo = 2 /\ faults = 0)
    => /\ invoked = <<>>
       /\ (pc = "done" => SameTree)

\* C2: resume. On a tree holding exactly the outputs of the first prepop
\* stages, with all tools succeeding, the commands of the run are those of
\* the stages prepop+1..N in stage order, the harden-transform stage
\* included.
C2_ResumeExact ==
  (runNo = 1 /\ pc = "done" /\ faults = 0)
    => Labels(invoked)
         = SubSeq(StageOrder(cfg), prepop + 1, Len(StageOrder(cfg)))

\* C3: fatal on missing output. Once an invoked command has exited 0 and
\* the stage's expected artifact is absent, no further command is invoked
\* and the run ends with exit code 1.
C3_FatalOnMissingOutput ==
  \A i \in 1..Len(invoked) :
    (invoked[i].rc = 0 /\ ~invoked[i].present)
      => /\ i = Len(invoked)
         /\ pc \in {"done"} => exitCode = 1
         /\ pc \notin {"cleanup1", "cleanup2"}

\* a command of this run has exited non-zero
Failed == \E i \in 1..Len(invoked) : invoked[i].rc # 0

\* C4: fail-fast. A command that exits non-zero is the last command of the
\* run; the run is over with exit code 1 at once, nothing has been deleted,
\* the step of the failing command removed no artifact, and nothing changes
\* afterwards.
C4_FailFast ==
  /\ [](\A i \in 1..Len(invoked) :
          invoked[i].rc # 0
            => /\ i = Len(invoked)
               /\ pc = "done"
               /\ exitCode = 1
               /\ deleted = {})
  /\ [][ /\ (Failed' /\ ~Failed) => (files \subseteq files' /\ dirs \subseteq dirs')
         /\ Failed => UNCHANGED <<files, dirs, invoked, deleted>> ]_vars

C4_Witness ==
  /\ Failed
  /\ Len(invoked) >= 3
  /\ pc = "done"
  /\ cfg.c = 2
  /\ Join(initial_clusters_dir, fc_case_id(cfg.r)) \in dirs

\* C5: branch selection. On an empty output root with all tools succeeding
\* the run reaches exit code 0 having invoked exactly the stages the
\* configuration selects, in the documented order, and the non-rigid
\* registration command takes the affine stage's output as its input.
\* every start-up check passes
Startable == ~ConfigError /\ cluster_location_file # <<>>

C5_BranchSelection ==
  (runNo = 1 /\ pc = "done" /\ faults = 0 /\ Startable)
    => /\ exitCode = 0
       /\ Labels(invoked) = StageOrder(cfg)
       /\ \A i \in 1..Len(invoked) :
            LabelOf(invoked[i].argv) = "reg_nonrigid"
              => /\ i > 1
                 /\ LabelOf(invoked[i - 1].argv) = "reg_affine"
                 /\ invoked[i].argv[4] = invoked[i - 1].expect

C5_Witness ==
  /\ runNo = 1 /\ pc = "done" /\ faults = 0 /\ exitCode = 0
  /\ cfg.r = "nonrig" /\ cfg.t = "ok" /\ cfg.d = 1
  /\ Len(invoked) = 17

\* C6: cleanup monotonicity. For the artifact set present when the last
\* stage is over, tier 0 deletes nothing, what tier 1 leaves is a subset of
\* it, and what tier 2 leaves is a subset of what tier 1 leaves.
C6_CleanupMonotone ==
  pc = "cleanup1"
    => LET T0 == AfterCleanup(0, Tree)
           T1 == AfterCleanup(1, Tree)
           T2 == AfterCleanup(2, Tree)
       IN /\ T0 = Tree
          /\ T1.files \subseteq T0.files /\ T1.dirs \subseteq T0.dirs
          /\ T2.files \subseteq T1.files /\ T2.dirs \subseteq T1.dirs

C6_Witness ==
  /\ pc = "cleanup1"
  /\ AfterCleanup(1, Tree) # Tree
  /\ AfterCleanup(2, Tree) # AfterCleanup(1, Tree)
  /\ transformed_clusters_dir \in dirs

\* C7: cleanup only after success. A run that ends in failure has deleted
\* nothing, and deletions happen only once the last selected stage is over.
C7_CleanupOnlyAfterSuccess ==
  /\ (pc = "done" /\ exitCode # 0) => deleted = {}
  /\ deleted # {} => pc \in {"cleanup2", "done"}

\* C8: cleanup failures are not fatal. A run in which a deletion of the
\* cleanup failed still ends with exit code 0.
C8_CleanupFailureNotFatal ==
  (pc = "done" /\ cleanupErr) => exitCode = 0

\* C9 as claimed: with the virtual-display flag on every invoked command
\* carries the launcher prefix, with the flag off none does.
C9_EveryCommandWrapped ==
  \A i \in 1..Len(invoked) : HasLauncher(invoked[i].argv) <=> cfg.x = 1

\* C9 amended: the launcher prefix is carried by exactly the
\* harden-transform commands of a run with the flag on; a measurement
\* command carries no prefix and its host-application launch string starts
\* with the launcher exactly when the flag is on; no other command carries
\* the prefix.
C9_HardenCommandsWrapped ==
  \A i \in 1..Len(invoked) :
    LET argv == invoked[i].argv
        t == ToolName(argv)
    IN /\ HasLauncher(argv) <=> (cfg.x = 1 /\ t = "wm_harden_transform.py")
       /\ t = "wm_diffusion_measurements.py"
            => (SubSeq(argv[4], 1, 2) = <<"xvfb-run", "-a">> <=> cfg.x = 1)

C9_Witness ==
  /\ cfg.x = 1
  /\ pc = "done" /\ exitCode = 0
  /\ \E i \in 1..Len(invoked) : LabelOf(invoked[i].argv) = "harden"
  /\ \E i \in 1..Len(invoked) : LabelOf(invoked[i].argv) = "inv_right"
  /\ \E i \in 1..Len(invoked) : LabelOf(invoked[i].argv) = "meas_tracts"

\* C10: configuration errors precede all stages. With a missing input, a
\* missing host application, a missing or invalid atlas, a missing
\* transform file or measurement export without a tool path, the run never
\* gets past its checks, invokes no command and ends with exit code 1.
C10_ConfigErrorsFirst ==
  ConfigError
    => /\ invoked = <<>>
       /\ pc \in {"validate", "done"}
       /\ pc = "done" => exitCode = 1

C10_Witness ==
  /\ pc = "done" /\ exitCode = 1 /\ invoked = <<>>
  /\ cfg.t = "missing"
  /\ env.inputExists /\ env.slicerExists /\ find_atlas_dirs(env.atlas).ok
  /\ output_case \in dirs

\* ------------------------------------------------------ atlas resolution
\* the program named by a command line takes an atlas directory
TakesAtlas(argv) ==
  ToolName(argv) \in {"wm_register_to_atlas_new.py", "wm_cluster_from_atlas.py",
                      "wm_cluster_remove_outliers.py",
                      "wm_append_clusters_to_anatomical_tracts_naba.py"}

\* the atlas directory a command line names
AtlasArg(argv) ==
  LET t == ToolName(argv)
  IN CASE t = "wm_register_to_atlas_new.py" -> Parent(argv[5])
       [] t = "wm_cluster_from_atlas.py" -> argv[5]
       [] t = "wm_cluster_remove_outliers.py" -> argv[5]
       [] t = "wm_append_clusters_to_anatomical_tracts_naba.py" -> argv[4]

Present(A, cands) ==
  {cands[i] : i \in {k \in 1..Len(cands) : Join(atlas_root, cands[k]) \in A.dirs}}

\* name is a directory under the root and no name listed before it is
EarliestPresent(A, cands, name) ==
  \E i \in 1..Len(cands) :
    /\ cands[i] = name
    /\ Join(atlas_root, name) \in A.dirs
    /\ \A j \in 1..(i - 1) : Join(atlas_root, cands[j]) \notin A.dirs

\* C11: atlas resolution precedence. On every atlas root the registration
\* directory and the clustering directory that _find_atlas_dirs selects are,
\* each on its own, the earliest name of the candidate list that is a
\* directory under the root; the commands of the run are given exactly these
\* directories, and a later run on the same root is given the same ones.
C11_FirstMatchWins ==
  LET A == env.atlas
      got == find_atlas_dirs(A)
  IN atlas_root \in A.dirs
       => /\ IF Present(A, reg_candidates) = {} THEN got.reg = ""
             ELSE EarliestPresent(A, reg_candidates, got.reg)
          /\ IF Present(A, fc_candidates) = {} THEN got.fc = ""
             ELSE EarliestPresent(A, fc_candidates, got.fc)
          /\ \A i \in 1..Len(invoked) :
               LET argv == invoked[i].argv
               IN TakesAtlas(argv)
                    => \E n \in Present(A, reg_candidates \o fc_candidates) :
                         /\ AtlasArg(argv) = Join(atlas_root, n)
                         /\ IF ToolName(argv) = "wm_register_to_atlas_new.py"
                              THEN EarliestPresent(A, reg_candidates, n)
                              ELSE EarliestPresent(A, fc_candidates, n)
          /\ \A i \in 1..Len(invoked) : \A j \in 1..Len(prev.invoked) :
               (TakesAtlas(invoked[i].argv)
                  /\ ToolName(invoked[i].argv) = ToolName(prev.invoked[j].argv))
                 => AtlasArg(invoked[i].argv) = AtlasArg(prev.invoked[j].argv)

C11_Witness ==
  /\ Cardinality(Present(env.atlas, reg_candidates)) >= 2
  /\ Cardinality(Present(env.atlas, fc_candidates)) >= 2
  /\ Join(atlas_root, reg_candidates[1]) \notin env.atlas.dirs
  /\ Join(atlas_root, fc_candidates[1]) \notin env.atlas.dirs
  /\ runNo = 2
  /\ \E j \in 1..Len(prev.invoked) :
       ToolName(prev.invoked[j].argv) = "wm_register_to_atlas_new.py"
  /\ \E i \in 1..Len(invoked) :
       ToolName(invoked[i].argv) = "wm_cluster_from_atlas.py"

\* some artifact of needed is missing from the earliest present candidate
FirstLacks(A, cands, needed) ==
  \E n \in Present(A, cands) :
    /\ EarliestPresent(A, cands, n)
    /\ \E f \in needed : atlas_root \o <<n, f>> \notin A.files

\* the cases in which resolution is said to fail
ResolutionFails(A) ==
  \/ Present(A, reg_candidates) = {}
  \/ Present(A, fc_candidates) = {}
  \/ FirstLacks(A, reg_candidates, {"registration_atlas.vtk"})
  \/ FirstLacks(A, fc_candidates, {"atlas.p", "atlas.vtp"})

\* C19: atlas resolution does not fall back past the first match.
\* _find_atlas_dirs fails exactly when no registration candidate or no
\* clustering candidate is a directory, or the earliest registration
\* directory lacks registration_atlas.vtk, or the earliest clustering
\* directory lacks atlas.p or atlas.vtp, whatever later candidates hold; a
\* run on such a root ends at once with exit code 1, no command and no
\* directory created, and a run on any other root gets past resolution.
C19_NoFallbackPastFirstMatch ==
  /\ find_atlas_dirs(env.atlas).ok <=> ~ResolutionFails(env.atlas)
  /\ (runNo = 1 /\ pc # "validate")
       => (ResolutionFails(env.atlas)
             <=> (pc = "done" /\ exitCode = 1 /\ invoked = <<>> /\ dirs = {}))

C19_Witness ==
  /\ pc = "done" /\ exitCode = 1 /\ invoked = <<>>
  /\ env.atlas = AtlasOf(<<"empty", "full", "absent">>,
                         <<"nogeometry", "absent", "full">>)

\* ------------------------------------------------------- the un-transform
\* a harden-transform command that applies the inverse of a transform and
\* writes below the transformed-cluster root
IsUntransform(argv) ==
  LET a == Strip(argv)
  IN /\ ToolName(argv) = "wm_harden_transform.py"
     /\ a[2] = <<"-i">>
     /\ (a[6] = transformed_root \/ IsUnder(a[6], transformed_root))

\* the transform artifacts the two registration steps of a non-rigid run
\* leave behind
AffineTransformPath ==
  <<"out", "sub", "TractRegistration", "sub", "output_tractography",
    "itk_txform_sub.tfm">>

NonrigidTransformPath ==
  <<"out", "sub", "TractRegistration", "sub_reg", "output_tractography",
    "itk_txform_sub_reg.tfm">>

\* C12: reverse transform chaining. In a non-rigid run every un-transform
\* command either applies the inverse of the non-rigid transform from the
\* outlier-removed directory into the staging directory, or the inverse of
\* the affine transform from the staging directory into the
\* transformed-cluster directory; each is invoked at most once, and when
\* both are invoked the non-rigid one comes first, directly followed by the
\* affine one, whose input is the directory the non-rigid one wrote to.
C12_ReverseChain ==
  cfg.r = "nonrig"
    => LET U == {i \in 1..Len(invoked) : IsUntransform(invoked[i].argv)}
           N == {i \in U : Strip(invoked[i].argv)[4] = NonrigidTransformPath}
           F == {i \in U : Strip(invoked[i].argv)[4] = AffineTransformPath}
       IN /\ U = N \cup F
          /\ Cardinality(N) <= 1 /\ Cardinality(F) <= 1
          /\ \A i \in N :
               /\ Strip(invoked[i].argv)[5] = outlier_dir("nonrig")
               /\ Strip(invoked[i].argv)[6] = temp_dir
          /\ \A j \in F :
               /\ Strip(invoked[j].argv)[5] = temp_dir
               /\ Strip(invoked[j].argv)[6] = transformed_clusters_dir
          /\ \A i \in N : \A j \in F :
               /\ j = i + 1
               /\ Strip(invoked[j].argv)[5] = Strip(invoked[i].argv)[6]
               /\ invoked[i].rc = 0

C12_Witness ==
  /\ cfg.r = "nonrig"
  /\ pc = "done" /\ exitCode = 0
  /\ \E i \in 1..Len(invoked) : \E j \in 1..Len(invoked) :
       /\ IsUntransform(invoked[i].argv) /\ IsUntransform(invoked[j].argv)
       /\ Strip(invoked[i].argv)[4] = NonrigidTransformPath
       /\ Strip(invoked[j].argv)[4] = AffineTransformPath
       /\ invoked[i].present
       /\ temp_check \in files

\* ---------------------------------------------- the per-folder fan-out
\* the folder names hemisphere separation uses, in ascending order
FolderOrder ==
  <<"tracts_commissural", "tracts_left_hemisphere", "tracts_right_hemisphere">>

\* a command of the inverse-transform stage: it applies the inverse of the
\* size-matching transform
IsFolderInverse(rec) ==
  LET a == Strip(rec.argv)
  IN /\ ToolName(rec.argv) = "wm_harden_transform.py"
     /\ a[2] = <<"-i">>
     /\ a[4] = transform_file

\* the folders the inverse-transform commands of this run were given, in
\* the order of invocation
InverseInputs ==
  LET S == SelectSeq(invoked, IsFolderInverse)
  IN [i \in 1..Len(S) |-> Strip(S[i].argv)[5]]

\* a subdirectory of the separated directory whose output folder had no
\* terminal artifact when the run was started
NeedsInverse(name) ==
  /\ Join(separated_clusters_dir, name) \in dirs
  /\ inverse_transformed_dir \o <<name, TerminalCluster>> \notin prev.files

\* those subdirectories in ascending order of name
ExpectedFolders ==
  LET S == SelectSeq(FolderOrder, NeedsInverse)
  IN [i \in 1..Len(S) |-> Join(separated_clusters_dir, S[i])]

\* the inverse-transform stage of this run is over
InverseStageOver ==
  \/ pc \in {"append", "measure", "measure_tracts", "cleanup1", "cleanup2"}
  \/ (pc = "done" /\ exitCode = 0)

\* C13: per-folder fan-out. With a size-matching transform, once the
\* inverse-transform stage is over the inverse-harden commands of the run
\* are exactly one for each subdirectory of the separated directory whose
\* output folder lacked its terminal artifact, in ascending order of
\* subdirectory name, each writing to the output folder of its
\* subdirectory; subdirectories whose artifact was there and entries that
\* are no directories get none. While the stage runs, and when one of its
\* commands fails, the commands so far are the leading ones of that list.
C13_FanOut ==
  cfg.t = "ok"
    => /\ \A p \in iterdir(files, dirs, separated_clusters_dir) :
            p \in dirs => \E k \in 1..Len(FolderOrder) : Name(p) = FolderOrder[k]
       /\ Len(InverseInputs) <= Len(ExpectedFolders)
       /\ InverseInputs = SubSeq(ExpectedFolders, 1, Len(InverseInputs))
       /\ InverseStageOver => InverseInputs = ExpectedFolders
       /\ \A i \in 1..Len(invoked) :
            IsFolderInverse(invoked[i])
              => Strip(invoked[i].argv)[6]
                   = Join(inverse_transformed_dir, Name(Strip(invoked[i].argv)[5]))

C13_Witness ==
  /\ cfg.t = "ok"
  /\ pc = "done" /\ exitCode = 0
  /\ out_csv("commissural") \in prev.files
  /\ inverse_transformed_dir \o <<"tracts_commissural", TerminalCluster>>
       \in prev.files
  /\ Len(InverseInputs) = 2

\* ------------------------------------------------ directories and stages
\* the output directories of the stages, each with the stages whose command
\* writes into it
StageDirs ==
  { [dir |-> transformed_tracts_dir, stages |-> {"harden"}],
    [dir |-> registration_dir,
     stages |-> {"reg_rigid", "reg_affine", "reg_nonrigid"}],
    [dir |-> initial_clusters_dir, stages |-> {"cluster"}],
    [dir |-> outlier_clusters_dir, stages |-> {"outliers"}],
    [dir |-> transformed_clusters_dir,
     stages |-> {"untf_rigid", "untf_nonrigid", "untf_affine"}],
    [dir |-> temp_dir, stages |-> {"untf_nonrigid"}],
    [dir |-> separated_clusters_dir, stages |-> {"separate"}],
    [dir |-> Join(inverse_transformed_dir, "tracts_commissural"),
     stages |-> {"inv_commissural"}],
    [dir |-> Join(inverse_transformed_dir, "tracts_left_hemisphere"),
     stages |-> {"inv_left"}],
    [dir |-> Join(inverse_transformed_dir, "tracts_right_hemisphere"),
     stages |-> {"inv_right"}],
    [dir |-> anatomical_tracts_dir, stages |-> {"append"}] }

\* the directory exists and did not when the run was started
CreatedThisRun(d) == d \in dirs /\ d \notin prev.dirs

\* a command of one of the stages has been invoked in this run
StageInvoked(stages) ==
  \E i \in 1..Len(invoked) : LabelOf(invoked[i].argv) \in stages

\* C14: lazy directory creation. A stage's output directory that a run has
\* created belongs to a stage whose command the run has invoked; a run that
\* ends before a stage's command has created no directory for that stage.
C14_LazyDirectories ==
  \A e \in StageDirs : CreatedThisRun(e.dir) => StageInvoked(e.stages)

\* ------------------------------------------------ what maximal cleanup leaves
\* the per-subject registration directories: registration_dir/<subject> and,
\* in non-rigid mode, registration_dir/<subject>_reg
SubjectRegistrationDirs(r) ==
  IF IsRigid(r) THEN {reg_subject_dir} ELSE {reg_subject_dir, nonrig_subject}

\* a registered geometry output or a per-iteration directory of d
IsBulkyRegistrationArtifact(p, d) ==
  \/ /\ p \in files
     /\ Len(p) = Len(d) + 2
     /\ Parent(p) = Join(d, "output_tractography")
     /\ Name(p) \in VtkNames
  \/ /\ p \in dirs
     /\ Parent(p) = d
     /\ Name(p) \in IterationNames

\* C15: tier-2 registration cleanup. After a successful run with cleanup
\* tier 2 no registered geometry output <registration dir>/<subject>/
\* output_tractography/*.vtk and no per-iteration directory directly under
\* a per-subject registration directory exists any more, while the
\* transform artifacts of the mode still exist.
C15_RegistrationStripped ==
  (pc = "done" /\ exitCode = 0 /\ cfg.c = 2)
    => /\ \A d \in SubjectRegistrationDirs(cfg.r) : \A p \in files \cup dirs :
            ~IsBulkyRegistrationArtifact(p, d)
       /\ tfm_affine \in files
       /\ ~IsRigid(cfg.r) => tfm_nonrig \in files

\* C16: tier-2 outlier-removal cleanup keeps logs. After a successful run
\* with cleanup tier 2 the hemisphere-assessment log of the outlier-removal
\* working directory, which every successful run has found or written,
\* still exists, and the non-log contents of that directory are gone.
C16_OutlierLogsKept ==
  (pc = "done" /\ exitCode = 0 /\ cfg.c = 2
     /\ \A i \in 1..Len(invoked) : invoked[i].present)
    => /\ assess_log(cfg.r) \in files
       /\ outlier_output(cfg.r) \notin files

\* ------------------------------------------------------ downstream gating
\* the stages after registration, and those after the un-transform
StagesAfterRegistration ==
  {"cluster", "outliers", "assess", "untf_rigid", "untf_nonrigid",
   "untf_affine", "separate", "inv_commissural", "inv_left", "inv_right",
   "append", "meas_commissural", "meas_left", "meas_right", "meas_tracts"}

StagesAfterUntransform ==
  {"separate", "inv_commissural", "inv_left", "inv_right", "append",
   "meas_commissural", "meas_left", "meas_right", "meas_tracts"}

\* the positions of main() past the check of the registration output, and
\* past the check of the transformed clusters, up to the cleanup
PastRegistration ==
  {"cluster", "outliers", "assess", "untransform", "untransform2", "separate",
   "inverse", "inverse_loop", "append", "measure", "measure_tracts", "cleanup1"}

PastUntransform ==
  {"separate", "inverse", "inverse_loop", "append", "measure",
   "measure_tracts", "cleanup1"}

\* the artifacts the gates look for
RegistrationGate == {reg_output(cfg.r)}

UntransformGate ==
  (IF IsRigid(cfg.r) THEN {tfm_affine} ELSE {tfm_nonrig, tfm_affine})
    \cup {transformed_check}

\* C17: downstream gating. As long as the run has deleted nothing (artifacts
\* are only ever added before the cleanup): a command of the clustering
\* stage or of a later stage has been invoked, or main() is past the
\* registration check, only if the final registration output exists; a
\* command of the separation stage or of a later stage has been invoked, or
\* main() is past the transformed-cluster check, only if the forward
\* transform artifact(s) and the terminal transformed-cluster artifact
\* exist; and a run that ends with one of these artifacts missing ends with
\* exit code 1, whatever later outputs are on disk.
C17_DownstreamGating ==
  deleted = {}
    => /\ (StageInvoked(StagesAfterRegistration) \/ pc \in PastRegistration)
            => RegistrationGate \subseteq files
       /\ (StageInvoked(StagesAfterUntransform) \/ pc \in PastUntransform)
            => UntransformGate \subseteq files
       /\ (pc = "done"
             /\ ~(RegistrationGate \cup UntransformGate \subseteq files))
            => exitCode = 1

C17_Witness ==
  /\ pc = "done" /\ exitCode = 1
  /\ reg_output(cfg.r) \notin files
  /\ invoked # <<>>
  /\ LabelOf(invoked[Len(invoked)].argv) \in {"reg_rigid", "reg_nonrigid"}
  /\ invoked[Len(invoked)].rc = 0
  /\ {cluster_output(cfg.r), outlier_output(cfg.r), transformed_check,
      separate_check} \subseteq files
  /\ append_check \notin files

\* ------------------------------------------------------ the exit status
\* C18: success implies results. Whenever a run ends with exit code 0 the
\* terminal anatomical-tract artifact exists, whatever the tools did.
C18_SuccessImpliesResults ==
  (pc = "done" /\ exitCode = 0) => append_check \in files

====
